---------------------------- MODULE Spec2Model ----------------------------
(***************************************************************************)
(* Batch reducers of tensorflow_transform/tf_utils.py.                     *)
(*                                                                         *)
(* A tensor is a record.  A dense tensor keeps its elements flat, in       *)
(* row-major order, beside its shape; a SparseTensor keeps indices, values *)
(* and dense_shape.  An element is a record <k, n, d>: k = "num" is the    *)
(* rational n/d (d > 0, lowest terms; d = 1 for the integer types),        *)
(* k = "nan" is NaN and k = "inf" is the infinity of sign n.  Floating     *)
(* arithmetic is exact on the numbers the inputs are drawn from; integer   *)
(* arithmetic wraps at the width of the element type.                      *)
(***************************************************************************)
EXTENDS Integers, Sequences, FiniteSets, TLC

VARIABLES x, reduce_instance_dims, vocab, pc, out

vars == <<x, reduce_instance_dims, vocab, pc, out>>

(***************************************************************************)
(* Bounds of the inputs.                                                   *)
(***************************************************************************)
MaxRows == 2

MaxLen == 3

Cols == 0 .. 1

(***************************************************************************)
(* Elements.                                                               *)
(***************************************************************************)
Num(n) == [k |-> "num", n |-> n, d |-> 1]

NaN == [k |-> "nan", n |-> 0, d |-> 1]

PosInf == [k |-> "inf", n |-> 1, d |-> 1]

NegInf == [k |-> "inf", n |-> -1, d |-> 1]

Abs(n) == IF n < 0 THEN -n ELSE n

Sign(n) == IF n < 0 THEN -1 ELSE IF n > 0 THEN 1 ELSE 0

RECURSIVE Gcd(_, _)
Gcd(a, b) == IF b = 0 THEN a ELSE Gcd(b, a % b)

Rat(n, d) ==
  LET g == Gcd(Abs(n), Abs(d))
      s == IF d < 0 THEN -1 ELSE 1
  IN  [k |-> "num", n |-> (s * n) \div g, d |-> (s * d) \div g]

(***************************************************************************)
(* Element types.  tf.int8 stands for the signed integer types: it has the *)
(* same two's-complement arithmetic at a width whose extremes the inputs   *)
(* can reach.  No input comes near the extremes of tf.int32.               *)
(***************************************************************************)
IsFloating(dtype) == dtype = "float32"

DtypeMin(dtype) ==
  CASE dtype = "int8" -> -128
    [] dtype = "uint8" -> 0
    [] dtype = "int32" -> -2147483647 - 1

DtypeMax(dtype) ==
  CASE dtype = "int8" -> 127
    [] dtype = "uint8" -> 255
    [] dtype = "int32" -> 2147483647

Wrap(dtype, n) ==
  CASE dtype = "int8" -> ((n + 128) % 256) - 128
    [] dtype = "uint8" -> n % 256
    [] OTHER -> n

(***************************************************************************)
(* Arithmetic of one element type.                                         *)
(***************************************************************************)
FAdd(a, b) ==
  IF a.k = "nan" \/ b.k = "nan" THEN NaN
  ELSE IF a.k = "inf" THEN (IF b.k = "inf" /\ b.n # a.n THEN NaN ELSE a)
  ELSE IF b.k = "inf" THEN b
  ELSE Rat(a.n * b.d + b.n * a.d, a.d * b.d)

FNeg(a) == IF a.k = "nan" THEN NaN ELSE [a EXCEPT !.n = -a.n]

FMul(a, b) ==
  IF a.k = "nan" \/ b.k = "nan" THEN NaN
  ELSE IF a.k = "inf" \/ b.k = "inf"
    THEN (IF a.n = 0 \/ b.n = 0 THEN NaN
          ELSE IF Sign(a.n) * Sign(b.n) > 0 THEN PosInf ELSE NegInf)
  ELSE Rat(a.n * b.n, a.d * b.d)

FDiv(a, b) ==
  IF a.k = "nan" \/ b.k = "nan" THEN NaN
  ELSE IF a.k = "inf"
    THEN (IF b.k = "inf" THEN NaN
          ELSE IF Sign(a.n) * (IF b.n < 0 THEN -1 ELSE 1) > 0 THEN PosInf ELSE NegInf)
  ELSE IF b.k = "inf" THEN Num(0)
  ELSE IF b.n = 0
    THEN (IF a.n = 0 THEN NaN ELSE IF a.n > 0 THEN PosInf ELSE NegInf)
  ELSE Rat(a.n * b.d, a.d * b.n)

Add(dtype, a, b) ==
  IF IsFloating(dtype) THEN FAdd(a, b) ELSE Num(Wrap(dtype, a.n + b.n))

Sub(dtype, a, b) ==
  IF IsFloating(dtype) THEN FAdd(a, FNeg(b)) ELSE Num(Wrap(dtype, a.n - b.n))

Mul(dtype, a, b) ==
  IF IsFloating(dtype) THEN FMul(a, b) ELSE Num(Wrap(dtype, a.n * b.n))

\* a > b as the elements compare: false whenever one of them is NaN.
Greater(a, b) ==
  IF a.k = "nan" \/ b.k = "nan" THEN FALSE
  ELSE IF a.k = "inf" THEN a.n > 0 /\ a # b
  ELSE IF b.k = "inf" THEN b.n < 0
  ELSE a.n * b.d > b.n * a.d

IsNan(a) == a.k = "nan"

IsInf(a) == a.k = "inf"

Zero(dtype) == Num(0)

One(dtype) == Num(1)

\* The smallest element of a type: where a maximum starts.
Lowest(dtype) == IF IsFloating(dtype) THEN NegInf ELSE Num(DtypeMin(dtype))

(***************************************************************************)
(* Tensors.                                                                *)
(***************************************************************************)
RECURSIVE Product(_)
Product(s) == IF s = <<>> THEN 1 ELSE Head(s) * Product(Tail(s))

Dense(dtype, shape, data) ==
  [sparse |-> FALSE, dtype |-> dtype, shape |-> shape, data |-> data,
   indices |-> <<>>]

SparseTensor(dtype, indices, values, dense_shape) ==
  [sparse |-> TRUE, dtype |-> dtype, shape |-> dense_shape, data |-> values,
   indices |-> indices]

Scalar(dtype, v) == Dense(dtype, <<>>, <<v>>)

Size(t) == Len(t.data)

\* The shape of an elementwise operation of two dense tensors, the smaller
\* one broadcast along the leading dimensions of the larger.
BroadcastShape(a, b) == IF Len(a.shape) >= Len(b.shape) THEN a.shape ELSE b.shape

\* The element of t that meets element i of the broadcast result.
At(t, i) == t.data[((i - 1) % Size(t)) + 1]

\* a / b and a - b of two dense floating tensors.
Divide(a, b) ==
  Dense(a.dtype, BroadcastShape(a, b),
        [i \in 1 .. Product(BroadcastShape(a, b)) |-> FDiv(At(a, i), At(b, i))])

Subtract(a, b) ==
  Dense(a.dtype, BroadcastShape(a, b),
        [i \in 1 .. Product(BroadcastShape(a, b)) |-> Sub(a.dtype, At(a, i), At(b, i))])

\* tf.is_nan and tf.math.is_inf, elementwise.
IsNanMask(t) == [i \in 1 .. Size(t) |-> IsNan(t.data[i])]

IsInfMask(t) == [i \in 1 .. Size(t) |-> IsInf(t.data[i])]

\* tf.zeros_like, tf.ones_like and tf.where on dense tensors.
ZerosLike(t) == [t EXCEPT !.data = [i \in 1 .. Size(t) |-> Zero(t.dtype)]]

OnesLike(t) == [t EXCEPT !.data = [i \in 1 .. Size(t) |-> One(t.dtype)]]

Where(cond, a, b) ==
  [b EXCEPT !.data = [i \in 1 .. Len(cond) |-> IF cond[i] THEN a.data[i] ELSE b.data[i]]]

RECURSIVE SumSeq(_, _)
SumSeq(dtype, s) ==
  IF s = <<>> THEN Zero(dtype) ELSE Add(dtype, Head(s), SumSeq(dtype, Tail(s)))

\* tf.reduce_max of a sequence: the running maximum starts at the lowest
\* element of the type and an element replaces it when it compares greater,
\* which NaN never does (an all-NaN input gives -inf, tf_utils.py line 394).
RECURSIVE MaxSeq(_, _)
MaxSeq(acc, s) ==
  IF s = <<>> THEN acc
  ELSE MaxSeq(IF Greater(Head(s), acc) THEN Head(s) ELSE acc, Tail(s))

\* The elements of a dense tensor that reduce into element j of the result
\* along axis 0.
Slice(t, j) ==
  LET inner == Product(Tail(t.shape))
  IN  [i \in 1 .. Head(t.shape) |-> t.data[(i - 1) * inner + j]]

\* tf.reduce_sum(x, axis): axis "None" reduces every dimension, axis 0 the
\* batch dimension.
ReduceSum(t, axis) ==
  IF axis = "None" \/ t.shape = <<>> THEN Scalar(t.dtype, SumSeq(t.dtype, t.data))
  ELSE Dense(t.dtype, Tail(t.shape),
             [j \in 1 .. Product(Tail(t.shape)) |-> SumSeq(t.dtype, Slice(t, j))])

ReduceMax(t, axis) ==
  IF axis = "None" \/ t.shape = <<>>
    THEN Scalar(t.dtype, MaxSeq(Lowest(t.dtype), t.data))
  ELSE Dense(t.dtype, Tail(t.shape),
             [j \in 1 .. Product(Tail(t.shape)) |->
                MaxSeq(Lowest(t.dtype), Slice(t, j))])

\* The values of a SparseTensor whose column index is j, in storage order.
RECURSIVE ColumnValues(_, _, _)
ColumnValues(indices, values, j) ==
  IF indices = <<>> THEN <<>>
  ELSE (IF Head(indices)[2] = j THEN <<Head(values)>> ELSE <<>>)
       \o ColumnValues(Tail(indices), Tail(values), j)

\* tf.sparse_reduce_sum(x, axis) of a rank-2 SparseTensor.
SparseReduceSum(t, axis) ==
  IF axis = "None" THEN Scalar(t.dtype, SumSeq(t.dtype, t.data))
  ELSE Dense(t.dtype, Tail(t.shape),
             [j \in 1 .. t.shape[2] |->
                SumSeq(t.dtype, ColumnValues(t.indices, t.data, j - 1))])

\* tf.sparse.reduce_max(x, axis=0): 0 where no element is present
\* (tf_utils.py lines 314-315).
SparseReduceMax(t) ==
  Dense(t.dtype, Tail(t.shape),
        [j \in 1 .. t.shape[2] |->
           LET col == ColumnValues(t.indices, t.data, j - 1)
           IN  IF col = <<>> THEN Zero(t.dtype) ELSE MaxSeq(Lowest(t.dtype), col)])

(***************************************************************************)
(* reduce_batch_sum, reduce_batch_count, reduce_batch_count_mean_and_var.  *)
(***************************************************************************)
\* reduce_batch_sum keeping, for a SparseTensor, the largest element in the
\* place of the sum (0 where there is none).
reduce_batch_sum_sparse_max(t, rid) ==
  LET axis == IF rid THEN "None" ELSE "0"
  IN  IF t.sparse
        THEN (IF rid THEN Scalar(t.dtype, MaxSeq(Zero(t.dtype), t.data))
              ELSE Dense(t.dtype, Tail(t.shape),
                         [j \in 1 .. t.shape[2] |->
                            MaxSeq(Zero(t.dtype),
                                   ColumnValues(t.indices, t.data, j - 1))]))
      ELSE ReduceSum(Where(IsNanMask(t), ZerosLike(t), t), axis)

reduce_batch_sum(t, rid) ==
  LET axis == IF rid THEN "None" ELSE "0"
  IN  IF t.sparse THEN SparseReduceSum(t, axis)
      ELSE ReduceSum(Where(IsNanMask(t), ZerosLike(t), t), axis)

\* reduce_batch_count counting NaN like any element.
reduce_batch_count_with_nan(t, rid) ==
  LET ones_like ==
        IF t.sparse
          THEN SparseTensor("int64", t.indices,
                            [i \in 1 .. Size(t) |-> One("int64")], t.shape)
        ELSE OnesLike(t)
  IN  reduce_batch_sum(ones_like, rid)

reduce_batch_count(t, rid) ==
  LET ones_like ==
        IF t.sparse
          THEN SparseTensor("int64", t.indices,
                            [i \in 1 .. Size(t) |-> One("int64")], t.shape)
        ELSE Where(IsNanMask(t), ZerosLike(t), OnesLike(t))
  IN  reduce_batch_sum(ones_like, rid)

\* tf.cast of a count to the element type of x.
Cast(t, dtype) == [t EXCEPT !.dtype = dtype]

Square(t) == [t EXCEPT !.data = [i \in 1 .. Size(t) |-> Mul(t.dtype, t.data[i], t.data[i])]]

\* tf.gather(params, x.indices[:, 1]).
GatherColumns(params, indices) ==
  Dense(params.dtype, <<Len(indices)>>,
        [i \in 1 .. Len(indices) |-> params.data[indices[i][2] + 1]])

reduce_batch_count_mean_and_var(t, rid) ==
  LET x1 == IF t.sparse /\ rid THEN Dense(t.dtype, <<Size(t)>>, t.data) ELSE t
      x_count == Cast(reduce_batch_count(x1, rid), x1.dtype)
      x_mean == Divide(reduce_batch_sum(x1, rid), x_count)
      x_minus_mean ==
        IF x1.sparse
          THEN Subtract(Dense(x1.dtype, <<Size(x1)>>, x1.data),
                        GatherColumns(x_mean, x1.indices))
        ELSE Subtract(x1, x_mean)
      x_variance ==
        Divide(reduce_batch_sum(Square(x_minus_mean), rid), x_count)
  IN  <<x_count, x_mean, x_variance>>

(***************************************************************************)
(* reduce_batch_minus_min_and_max.                                         *)
(***************************************************************************)
\* 0 - x, elementwise, in the element type of x.
Negate(t) == [t EXCEPT !.data = [i \in 1 .. Size(t) |-> Sub(t.dtype, Zero(t.dtype), t.data[i])]]

Fill(t, v) == [t EXCEPT !.data = [i \in 1 .. Size(t) |-> v]]

\* _sparse_minus_reduce_min_and_reduce_max with dtype.min, not dtype.min + 1,
\* for the integer types.
sparse_minus_reduce_min_and_reduce_max_dtype_min(t) ==
  LET minus_x == SparseTensor(t.dtype, t.indices, Negate(t).data, t.shape)
      x_count == reduce_batch_count(t, FALSE)
      batch_has_no_values == [i \in 1 .. Size(x_count) |-> x_count.data[i] = Num(0)]
      x_batch_max == SparseReduceMax(t)
      x_batch_minus_min == SparseReduceMax(minus_x)
      missing_value ==
        IF IsFloating(t.dtype) THEN NaN ELSE Num(DtypeMin(t.dtype))
  IN  <<Where(batch_has_no_values, Fill(x_batch_minus_min, missing_value),
              x_batch_minus_min),
        Where(batch_has_no_values, Fill(x_batch_max, missing_value), x_batch_max)>>

sparse_minus_reduce_min_and_reduce_max(t) ==
  LET minus_x == SparseTensor(t.dtype, t.indices, Negate(t).data, t.shape)
      x_count == reduce_batch_count(t, FALSE)
      batch_has_no_values == [i \in 1 .. Size(x_count) |-> x_count.data[i] = Num(0)]
      x_batch_max == SparseReduceMax(t)
      x_batch_minus_min == SparseReduceMax(minus_x)
      missing_value ==
        IF IsFloating(t.dtype) THEN NaN ELSE Num(DtypeMin(t.dtype) + 1)
  IN  <<Where(batch_has_no_values, Fill(x_batch_minus_min, missing_value),
              x_batch_minus_min),
        Where(batch_has_no_values, Fill(x_batch_max, missing_value), x_batch_max)>>

inf_to_nan(t, output_dtype) ==
  IF IsFloating(t.dtype)
    THEN Where(IsInfMask(t),
               [t EXCEPT !.data = [i \in 1 .. Size(t) |-> FAdd(t.data[i], NaN)]], t)
  ELSE t

\* The pair (batch -min, batch max), or the TypeError of line 378.
reduce_batch_minus_min_and_max(t, rid) ==
  LET output_dtype == t.dtype
      x1 == IF t.dtype \in {"uint8", "uint16"} THEN Cast(t, "int32") ELSE t
      x2 == IF x1.sparse THEN Dense(x1.dtype, <<Size(x1)>>, x1.data) ELSE x1
      pair ==
        IF rid THEN <<ReduceMax(Negate(x2), "None"), ReduceMax(x2, "None")>>
        ELSE IF x1.sparse THEN sparse_minus_reduce_min_and_reduce_max(x1)
        ELSE <<ReduceMax(Negate(x1), "0"), ReduceMax(x1, "0")>>
  IN  IF t.dtype \in {"uint32", "uint64"}
        THEN [status |-> "TypeError", val |-> <<>>]
      ELSE [status |-> "ok",
            val |-> <<inf_to_nan(pair[1], output_dtype),
                      inf_to_nan(pair[2], output_dtype)>>]

(***************************************************************************)
(* Input batches.  A batch of r rows is drawn as a grid of r * |Cols|      *)
(* cells; a sparse batch stores the cells that are present, in row-major   *)
(* order.                                                                  *)
(***************************************************************************)
NumCols == Cardinality(Cols)

Absent == [k |-> "absent", n |-> 0, d |-> 1]

RECURSIVE PresentIndices(_, _)
PresentIndices(cells, i) ==
  IF i > Len(cells) THEN <<>>
  ELSE (IF cells[i] = Absent THEN <<>>
        ELSE << <<(i - 1) \div NumCols, (i - 1) % NumCols>> >>)
       \o PresentIndices(cells, i + 1)

RECURSIVE PresentValues(_, _)
PresentValues(cells, i) ==
  IF i > Len(cells) THEN <<>>
  ELSE (IF cells[i] = Absent THEN <<>> ELSE <<cells[i]>>)
       \o PresentValues(cells, i + 1)

DenseBatches(dtype, values) ==
  UNION {{Dense(dtype, <<r, NumCols>>, data) :
            data \in [1 .. r * NumCols -> values]} : r \in 0 .. MaxRows}

SparseBatches(dtype, values) ==
  UNION {{SparseTensor(dtype, PresentIndices(cells, 1), PresentValues(cells, 1),
                       <<r, NumCols>>) :
            cells \in [1 .. r * NumCols -> values \cup {Absent}]} :
         r \in 0 .. MaxRows}

NoTensor == Dense("float32", <<>>, <<>>)

NoVocab == [x |-> <<>>, ordering |-> "none",
            weights |-> [present |-> FALSE, data |-> <<>>],
            labels |-> [present |-> FALSE, data |-> <<>>]]

NoOut == [op |-> "none", status |-> "none", val |-> <<>>]

(***************************************************************************)
(* Count, sum, mean and variance of one batch.                             *)
(***************************************************************************)
StatsInputs ==
  DenseBatches("float32", {NaN, Num(1), Num(3), PosInf, NegInf})
    \cup SparseBatches("float32", {NaN, Num(1), Num(3)})
    \cup DenseBatches("int8", {Num(-128), Num(1), Num(127)})
    \cup SparseBatches("int8", {Num(1), Num(127)})

InitStats ==
  /\ x \in StatsInputs
  /\ reduce_instance_dims \in BOOLEAN
  /\ vocab = NoVocab
  /\ pc = "start"
  /\ out = NoOut

ReduceBatchCount ==
  /\ pc = "start"
  /\ pc' = "done"
  /\ out' = [op |-> "count", status |-> "ok",
             val |-> <<reduce_batch_count(x, reduce_instance_dims)>>]
  /\ UNCHANGED <<x, reduce_instance_dims, vocab>>

ReduceBatchSum ==
  /\ pc = "start"
  /\ pc' = "done"
  /\ out' = [op |-> "sum", status |-> "ok",
             val |-> <<reduce_batch_sum(x, reduce_instance_dims)>>]
  /\ UNCHANGED <<x, reduce_instance_dims, vocab>>

\* Integer batches do not get past x - x_mean: the mean of an integer
\* tensor is a float64 tensor, and the subtraction raises.
ReduceBatchCountMeanAndVar ==
  /\ pc = "start"
  /\ pc' = "done"
  /\ out' = IF x.sparse /\ ~reduce_instance_dims /\ Len(x.shape) # 2
              THEN [op |-> "mean_and_var", status |-> "NotImplementedError", val |-> <<>>]
            ELSE IF ~IsFloating(x.dtype)
              THEN [op |-> "mean_and_var", status |-> "TypeError", val |-> <<>>]
            ELSE [op |-> "mean_and_var", status |-> "ok",
                  val |-> reduce_batch_count_mean_and_var(x, reduce_instance_dims)]
  /\ UNCHANGED <<x, reduce_instance_dims, vocab>>

NextStats == ReduceBatchCount \/ ReduceBatchSum \/ ReduceBatchCountMeanAndVar

SpecStats == InitStats /\ [][NextStats]_vars

(***************************************************************************)
(* Minimum and maximum of one batch.                                       *)
(***************************************************************************)
MinMaxInputs ==
  DenseBatches("float32", {NaN, Num(-2), Num(1), PosInf})
    \cup DenseBatches("int8", {Num(-128), Num(-127), Num(5), Num(127)})
    \cup DenseBatches("uint8", {Num(0), Num(7), Num(255)})
    \cup DenseBatches("uint32", {Num(0)})
    \cup SparseBatches("float32", {Num(-2), Num(1), PosInf})
    \cup SparseBatches("int8", {Num(-128), Num(-127), Num(5), Num(127)})

InitMinMax ==
  /\ x \in MinMaxInputs
  /\ reduce_instance_dims \in BOOLEAN
  /\ vocab = NoVocab
  /\ pc = "start"
  /\ out = NoOut

ReduceBatchMinusMinAndMax ==
  /\ pc = "start"
  /\ pc' = "done"
  /\ out' = [op |-> "minus_min_and_max"]
              @@ reduce_batch_minus_min_and_max(x, reduce_instance_dims)
  /\ UNCHANGED <<x, reduce_instance_dims, vocab>>

NextMinMax == ReduceBatchMinusMinAndMax

SpecMinMax == InitMinMax /\ [][NextMinMax]_vars

(***************************************************************************)
(* reduce_batch_vocabulary.  The call builds a graph: each field of the    *)
(* returned tuple is None or a tensor, and a tensor is evaluated only      *)
(* after the assertions it depends on through control dependencies.        *)
(* Tensors are fed with an unknown batch dimension, so the static shape    *)
(* check of assert_same_shape passes and its dynamic check decides.        *)
(***************************************************************************)
None == [present |-> FALSE, data |-> <<>>]

Given(data) == [present |-> TRUE, data |-> data]

NoField == [none |-> TRUE, deps |-> {}]

Field(deps) == [none |-> FALSE, deps |-> deps]

RECURSIVE UniqueValues(_, _)
UniqueValues(s, seen) ==
  IF s = <<>> THEN seen
  ELSE UniqueValues(Tail(s),
                    IF \E i \in 1 .. Len(seen) : seen[i] = Head(s) THEN seen
                    ELSE Append(seen, Head(s)))

\* tf.unique_with_counts: the unique values in order of first occurrence,
\* the position of every element's value among them, and the occurrences.
unique_with_counts(s) ==
  LET y == UniqueValues(s, <<>>)
  IN  [y |-> y,
       idx |-> [i \in 1 .. Len(s) |-> CHOOSE j \in 1 .. Len(y) : y[j] = s[i]],
       count |-> [j \in 1 .. Len(y) |-> Cardinality({i \in 1 .. Len(s) : s[i] = y[j]})]]

RECURSIVE SegmentSum(_, _, _, _)
SegmentSum(data, idx, j, i) ==
  IF i > Len(data) THEN 0
  ELSE (IF idx[i] = j THEN data[i] ELSE 0) + SegmentSum(data, idx, j, i + 1)

unsorted_segment_sum(data, idx, num_segments) ==
  [j \in 1 .. num_segments |-> SegmentSum(data, idx, j, 1)]

\* assert_same_shape(x, y): y = None has no shape (AttributeError); else x
\* comes back depending on the dynamic assertion named `name`.
assert_same_shape(deps, y, name) ==
  IF ~y.present THEN [status |-> "AttributeError", deps |-> deps]
  ELSE [status |-> "ok", deps |-> deps \cup {name}]

\* _reduce_vocabulary_inputs setting counts = unique.count on both branches.
reduce_vocabulary_inputs_counts_always(xdeps, labels) ==
  IF ~labels.present
    THEN <<Field(xdeps), Field(xdeps), NoField, Field(xdeps)>>
  ELSE <<Field(xdeps), Field(xdeps),
         Field(xdeps \cup {"less_assert", "greater_assert"}), Field(xdeps)>>

\* _reduce_vocabulary_inputs without the control dependencies of labels.
reduce_vocabulary_inputs_unguarded(xdeps, labels) ==
  IF ~labels.present
    THEN <<Field(xdeps), Field(xdeps), NoField, NoField>>
  ELSE <<Field(xdeps), Field(xdeps), Field(xdeps), Field(xdeps)>>

\* The fields _reduce_vocabulary_inputs returns, x depending on xdeps.
reduce_vocabulary_inputs(xdeps, labels) ==
  IF ~labels.present
    THEN <<Field(xdeps), Field(xdeps), NoField, NoField>>
  ELSE <<Field(xdeps), Field(xdeps),
         Field(xdeps \cup {"less_assert", "greater_assert"}), Field(xdeps)>>

\* The graph reduce_batch_vocabulary builds, or the error it raises.
reduce_batch_vocabulary(v) ==
  IF v.ordering = "FREQUENCY"
    THEN [status |-> "ok", weights |-> v.weights,
          fields |-> <<Field({}), NoField, NoField, NoField>>]
  ELSE
    LET mi == v.ordering = "WEIGHTED_MUTUAL_INFORMATION"
        x1 == IF mi THEN assert_same_shape({}, v.labels, "shape_labels")
              ELSE [status |-> "ok", deps |-> {}]
        weights == IF mi /\ ~v.weights.present
                     THEN Given([i \in 1 .. Len(v.labels.data) |-> 1])
                   ELSE v.weights
        x2 == assert_same_shape(x1.deps, weights, "shape_weights")
    IN  IF mi /\ ~v.labels.present
          THEN [status |-> "ValueError", weights |-> v.weights, fields |-> <<>>]
        ELSE IF x2.status # "ok"
          THEN [status |-> x2.status, weights |-> v.weights, fields |-> <<>>]
        ELSE [status |-> "ok", weights |-> weights,
              fields |-> reduce_vocabulary_inputs(x2.deps, v.labels)]

\* Whether an assertion of the graph passes on the batch.
AssertionHolds(v, weights, name) ==
  CASE name = "shape_labels" -> Len(v.x) = Len(v.labels.data)
    [] name = "shape_weights" -> Len(v.x) = Len(weights.data)
    [] name = "less_assert" -> \A i \in 1 .. Len(v.labels.data) : v.labels.data[i] <= 1
    [] name = "greater_assert" -> \A i \in 1 .. Len(v.labels.data) : v.labels.data[i] >= 0

\* The value of field f of the tuple once its assertions have passed.
FieldValue(v, weights, f) ==
  LET unique == unique_with_counts(v.x)
  IN  CASE f = 1 -> IF v.ordering = "FREQUENCY" THEN v.x ELSE unique.y
        [] f = 2 -> unsorted_segment_sum(weights.data, unique.idx, Len(unique.y))
        [] f = 3 -> unsorted_segment_sum(
                      [i \in 1 .. Len(v.x) |-> v.labels.data[i] * weights.data[i]],
                      unique.idx, Len(unique.y))
        [] f = 4 -> unique.count

\* One run of the graph fetching the fields in `fetch`: it fails on the
\* assertions the fetched fields depend on that do not hold.
Run(v, graph, fetch) ==
  LET failed == {a \in UNION {graph.fields[f].deps : f \in fetch} :
                   ~AssertionHolds(v, graph.weights, a)}
  IN  IF failed # {}
        THEN [status |-> "InvalidArgumentError", failed |-> failed, val |-> <<>>]
      ELSE [status |-> "ok", failed |-> {},
            val |-> [f \in 1 .. 4 |->
                       IF f \in fetch THEN FieldValue(v, graph.weights, f) ELSE <<>>]]

\* What a caller can fetch: one field that is not None, or all of them.
Fetches(graph) ==
  LET tensors == {f \in 1 .. 4 : ~graph.fields[f].none}
  IN  {{f} : f \in tensors} \cup {tensors}

Tokens == {"a", "b"}

Weights == {1, 2, 3}

Labels == {-1, 0, 1, 2}

Seqs(S, n) == [1 .. n -> S]

VocabInputs ==
  UNION {
    {[x |-> s, ordering |-> "FREQUENCY", weights |-> None, labels |-> None] :
       s \in Seqs(Tokens, n)}
    \cup
    {[x |-> s, ordering |-> "WEIGHTED_FREQUENCY", weights |-> w, labels |-> None] :
       s \in Seqs(Tokens, n),
       w \in {None, Given([i \in 1 .. n + 1 |-> 1])}
               \cup {Given(d) : d \in Seqs(Weights, n)}}
    \cup
    {[x |-> s, ordering |-> "WEIGHTED_MUTUAL_INFORMATION", weights |-> w, labels |-> l] :
       s \in Seqs(Tokens, n),
       w \in {None, Given([i \in 1 .. n |-> i]), Given([i \in 1 .. n + 1 |-> 1])},
       l \in {None} \cup {Given(d) : d \in Seqs(Labels, n)}}
    : n \in 0 .. MaxLen}

InitVocab ==
  /\ vocab \in VocabInputs
  /\ x = NoTensor
  /\ reduce_instance_dims = FALSE
  /\ pc = "start"
  /\ out = NoOut

\* The call of reduce_batch_vocabulary: it returns a graph or raises.
ReduceBatchVocabulary ==
  /\ pc = "start"
  /\ LET graph == reduce_batch_vocabulary(vocab)
     IN  /\ pc' = IF graph.status = "ok" THEN "built" ELSE "raised"
         /\ out' = [op |-> "vocabulary", status |-> graph.status,
                    val |-> graph.fields]
  /\ UNCHANGED <<x, reduce_instance_dims, vocab>>

\* The engine evaluates some of the returned tensors.
Evaluate ==
  /\ pc = "built"
  /\ LET graph == reduce_batch_vocabulary(vocab)
     IN  \E fetch \in Fetches(graph) :
           out' = [op |-> "evaluate", fetch |-> fetch] @@ Run(vocab, graph, fetch)
  /\ pc' = "evaluated"
  /\ UNCHANGED <<x, reduce_instance_dims, vocab>>

NextVocab == ReduceBatchVocabulary \/ Evaluate

SpecVocab == InitVocab /\ [][NextVocab]_vars

(***************************************************************************)
(* Properties of count, sum, mean and variance (SpecStats).                *)
(***************************************************************************)
NumRows(t) == Head(t.shape)

\* Position of row r among the rows of S.
RowRank(S, r) == Cardinality({q \in S : q < r})

RECURSIVE KeepRows(_, _, _)
KeepRows(indices, values, S) ==
  IF indices = <<>> THEN [indices |-> <<>>, values |-> <<>>]
  ELSE LET rest == KeepRows(Tail(indices), Tail(values), S)
           ix == Head(indices)
       IN  IF ix[1] \in S
             THEN [indices |-> << <<RowRank(S, ix[1]), ix[2]>> >> \o rest.indices,
                   values |-> <<Head(values)>> \o rest.values]
           ELSE rest

RECURSIVE DenseRows(_, _, _)
DenseRows(t, S, r) ==
  IF r >= NumRows(t) THEN <<>>
  ELSE (IF r \in S THEN SubSeq(t.data, r * NumCols + 1, (r + 1) * NumCols) ELSE <<>>)
       \o DenseRows(t, S, r + 1)

\* The sub-batch of the rows of t whose number is in S, in their order.
SubBatch(t, S) ==
  IF t.sparse
    THEN LET kept == KeepRows(t.indices, t.data, S)
         IN  SparseTensor(t.dtype, kept.indices, kept.values,
                          <<Cardinality(S), NumCols>>)
  ELSE Dense(t.dtype, <<Cardinality(S), NumCols>>, DenseRows(t, S, 0))

Rows(t) == 0 .. NumRows(t) - 1

\* Merging two partial aggregates by addition.
MergeAdd(a, b) ==
  [a EXCEPT !.data = [i \in 1 .. Size(a) |-> Add(a.dtype, a.data[i], b.data[i])]]

\* C1: for every batch, dense or sparse, in both modes, and every split of
\* its rows into sub-batches A and B (either may be empty), the counts of A
\* and B add up to the count of the batch and the sums of A and B add up to
\* the sum of the batch, in either order of the merge.
C1_SplitAdditive ==
  (pc = "done" /\ out.op \in {"count", "sum"}) =>
    \A S \in SUBSET Rows(x) :
      LET A == SubBatch(x, S)
          B == SubBatch(x, Rows(x) \ S)
          ra == IF out.op = "count" THEN reduce_batch_count(A, reduce_instance_dims)
                ELSE reduce_batch_sum(A, reduce_instance_dims)
          rb == IF out.op = "count" THEN reduce_batch_count(B, reduce_instance_dims)
                ELSE reduce_batch_sum(B, reduce_instance_dims)
      IN  /\ MergeAdd(ra, rb) = out.val[1]
          /\ MergeAdd(rb, ra) = out.val[1]

\* A two-row sparse batch summed per column, where each row alone gives a
\* different sum of the first column than the two together.
C1_Witness ==
  /\ pc = "done" /\ out.op = "sum" /\ x.sparse /\ ~reduce_instance_dims
  /\ NumRows(x) = 2
  /\ reduce_batch_sum(SubBatch(x, {0}), FALSE).data[1] # out.val[1].data[1]
  /\ reduce_batch_sum(SubBatch(x, {1}), FALSE).data[1] # out.val[1].data[1]

\* The elements of x that reduce into element j of a result: all of them in
\* collapsed mode, column j otherwise.
Reduced(t, rid, j) ==
  IF rid THEN t.data
  ELSE IF t.sparse THEN ColumnValues(t.indices, t.data, j - 1)
  ELSE Slice(t, j)

ResultSize(rid) == IF rid THEN 1 ELSE NumCols

NotNan(a) == ~IsNan(a)

\* Sum of the rationals of a sequence, by position.
RECURSIVE ExactSum(_, _)
ExactSum(s, i) == IF i > Len(s) THEN Num(0) ELSE FAdd(s[i], ExactSum(s, i + 1))

\* C8: for every dense floating batch, the count is the number of non-NaN
\* elements, the sum is the sum of the non-NaN elements (NaN only when those
\* themselves sum to NaN), and the mean is that sum divided by that count.
C8_NanExcluded ==
  (pc = "done" /\ ~x.sparse /\ IsFloating(x.dtype)) =>
    \A j \in 1 .. ResultSize(reduce_instance_dims) :
      LET valid == SelectSeq(Reduced(x, reduce_instance_dims, j), NotNan)
          count == Num(Len(valid))
          sum == ExactSum(valid, 1)
      IN  /\ out.op = "count" => out.val[1].data[j] = count
          /\ out.op = "sum" =>
               /\ out.val[1].data[j] = sum
               /\ (\A i \in 1 .. Len(valid) : ~IsInf(valid[i])) => ~IsNan(out.val[1].data[j])
          /\ out.op = "mean_and_var" =>
               /\ out.val[1].data[j] = count
               /\ out.val[2].data[j] = FDiv(sum, count)

\* x = [1, NaN, 3, NaN] collapsed: count 2, mean 4 / 2 = 2.
C8_Witness ==
  /\ pc = "done" /\ out.op = "mean_and_var" /\ reduce_instance_dims
  /\ ~x.sparse /\ x.data = <<Num(1), NaN, Num(3), NaN>>
  /\ out.val[1].data = <<Num(2)>>
  /\ out.val[2].data = <<Num(2)>>

\* C7: for a rank-2 sparse batch in per-column mode, each column's variance
\* is the sum over the present entries of that column of (value - column
\* mean) squared, divided by the column's count; the entries of the other
\* columns do not contribute.  Stated for the batches that hold no NaN.
C7_SparseColumnVariance ==
  (pc = "done" /\ out.op = "mean_and_var" /\ out.status = "ok"
     /\ x.sparse /\ ~reduce_instance_dims
     /\ \A i \in 1 .. Size(x) : ~IsNan(x.data[i])) =>
    \A j \in 1 .. NumCols :
      LET col == ColumnValues(x.indices, x.data, j - 1)
          count == Num(Len(col))
          mean == FDiv(ExactSum(col, 1), count)
          squares == [i \in 1 .. Len(col) |->
                        FMul(FAdd(col[i], FNeg(mean)), FAdd(col[i], FNeg(mean)))]
      IN  out.val[3].data[j] = FDiv(ExactSum(squares, 1), count)

(***************************************************************************)
(* Properties of the minimum and maximum (SpecMinMax).                     *)
(***************************************************************************)
\* The largest and the smallest of a non-empty set of elements without NaN.
TrueMax(S) == CHOOSE m \in S : \A y \in S : ~Greater(y, m)

TrueMin(S) == CHOOSE m \in S : \A y \in S : ~Greater(m, y)

Range(s) == {s[i] : i \in 1 .. Len(s)}

\* The elementwise maximum of two elements: NaN when one of them is NaN.
Maximum(a, b) ==
  IF IsNan(a) \/ IsNan(b) THEN NaN ELSE IF Greater(b, a) THEN b ELSE a

\* The elementwise maximum that passes over NaN.
NanMaximum(a, b) ==
  IF IsNan(a) THEN b ELSE IF IsNan(b) THEN a ELSE IF Greater(b, a) THEN b ELSE a

\* Merging two (-min, max) pairs by either maximum.
MergeMaximum(p, q) ==
  [f \in 1 .. 2 |->
     [p[f] EXCEPT !.data = [i \in 1 .. Size(p[f]) |->
                              Maximum(p[f].data[i], q[f].data[i])]]]

MergeNanMaximum(p, q) ==
  [f \in 1 .. 2 |->
     [p[f] EXCEPT !.data = [i \in 1 .. Size(p[f]) |->
                              NanMaximum(p[f].data[i], q[f].data[i])]]]

\* C2: for every batch (dense, or sparse in per-column mode) and every
\* split of its rows into sub-batches A and B, the elementwise maximum of
\* the (-min, max) pairs of A and B is the pair of the whole batch.  The
\* claim does not say what the maximum of NaN and a number is: it is taken
\* to hold when it holds for one of the two maxima.
C2_SplitMax ==
  (pc = "done" /\ out.status = "ok" /\ (x.sparse => ~reduce_instance_dims)) =>
    \A S \in SUBSET Rows(x) :
      LET ra == reduce_batch_minus_min_and_max(SubBatch(x, S), reduce_instance_dims).val
          rb == reduce_batch_minus_min_and_max(SubBatch(x, Rows(x) \ S),
                                               reduce_instance_dims).val
      IN  \/ MergeMaximum(ra, rb) = out.val
          \/ MergeNanMaximum(ra, rb) = out.val

\* C3: for every dense batch of a floating, signed or unsigned 8-bit type,
\* wherever at least one element that is not NaN reduces into a result, the
\* negation of the first field is the true minimum of those elements and the
\* second field is their true maximum.  Stated for the batches that hold no
\* infinity, with the negation taken in the element type of the result.
C3_TrueMinAndMax ==
  (pc = "done" /\ out.status = "ok" /\ ~x.sparse
     /\ \A i \in 1 .. Size(x) : ~IsInf(x.data[i])) =>
    \A j \in 1 .. ResultSize(reduce_instance_dims) :
      LET valid == Range(SelectSeq(Reduced(x, reduce_instance_dims, j), NotNan))
      IN  valid # {} =>
            /\ Sub(out.val[1].dtype, Zero(out.val[1].dtype), out.val[1].data[j])
                 = TrueMin(valid)
            /\ out.val[2].data[j] = TrueMax(valid)

\* The value standing for a column without entries.
Sentinel(dtype) == IF IsFloating(dtype) THEN NaN ELSE Num(DtypeMin(dtype) + 1)

\* C9: for a sparse batch in per-column mode, a column without a present
\* entry gets the sentinel in both fields, and a column with present
\* entries gets their maximum and their negated minimum.  Stated for the
\* batches that hold no infinity, with the negation taken in the element
\* type.
C9_SparseColumns ==
  (pc = "done" /\ out.status = "ok" /\ x.sparse /\ ~reduce_instance_dims
     /\ \A i \in 1 .. Size(x) : ~IsInf(x.data[i])) =>
    \A j \in 1 .. NumCols :
      LET col == Range(ColumnValues(x.indices, x.data, j - 1))
      IN  IF col = {}
            THEN /\ out.val[1].data[j] = Sentinel(x.dtype)
                 /\ out.val[2].data[j] = Sentinel(x.dtype)
          ELSE /\ out.val[1].data[j] = Sub(x.dtype, Zero(x.dtype), TrueMin(col))
               /\ out.val[2].data[j] = TrueMax(col)

\* C10 as claimed: for an integer sparse batch in per-column mode, no
\* column with a present entry has type minimum + 1 in either field.
C10_SentinelNeverLegitimate ==
  (pc = "done" /\ out.status = "ok" /\ x.sparse /\ ~reduce_instance_dims
     /\ ~IsFloating(x.dtype)) =>
    \A j \in 1 .. NumCols :
      ColumnValues(x.indices, x.data, j - 1) # <<>> =>
        /\ out.val[1].data[j] # Sentinel(x.dtype)
        /\ out.val[2].data[j] # Sentinel(x.dtype)

\* C10 as amended: for an integer sparse batch in per-column mode, a column
\* without entries has type minimum + 1 in both fields; a column with
\* entries has it in the max field exactly when its largest entry is type
\* minimum + 1, and in the -min field exactly when it holds the type maximum
\* and besides it only the type minimum.  So a column whose entries all lie
\* strictly between type minimum + 1 and the type maximum never has it.
C10_SentinelCollisions ==
  (pc = "done" /\ out.status = "ok" /\ x.sparse /\ ~reduce_instance_dims
     /\ ~IsFloating(x.dtype)) =>
    \A j \in 1 .. NumCols :
      LET col == Range(ColumnValues(x.indices, x.data, j - 1))
          lo == Num(DtypeMin(x.dtype))
          hi == Num(DtypeMax(x.dtype))
          sentinel == Sentinel(x.dtype)
      IN  IF col = {}
            THEN out.val[1].data[j] = sentinel /\ out.val[2].data[j] = sentinel
          ELSE /\ out.val[2].data[j] = sentinel <=> TrueMax(col) = sentinel
               /\ out.val[1].data[j] = sentinel <=> (hi \in col /\ col \subseteq {hi, lo})
               /\ (\A v \in col : Greater(v, sentinel) /\ Greater(hi, v)) =>
                    /\ out.val[1].data[j] # sentinel
                    /\ out.val[2].data[j] # sentinel

\* A batch whose first column holds only type minimum + 1, so that its max
\* field is the sentinel, beside an empty second column and the same value.
C10_Witness ==
  /\ pc = "done" /\ out.status = "ok" /\ x.sparse /\ ~reduce_instance_dims
  /\ x.dtype = "int8"
  /\ Range(ColumnValues(x.indices, x.data, 0)) = {Num(-127)}
  /\ ColumnValues(x.indices, x.data, 1) = <<>>
  /\ out.val[2].data[1] = out.val[2].data[2]

(***************************************************************************)
(* Properties of the vocabulary reduction (SpecVocab).                     *)
(***************************************************************************)
Occurrences(s, v) == {i \in 1 .. Len(s) : s[i] = v}

RECURSIVE SumOver(_, _)
SumOver(w, I) ==
  IF I = {} THEN 0
  ELSE LET i == CHOOSE i \in I : TRUE IN w[i] + SumOver(w, I \ {i})

SameShape(v) ==
  /\ v.weights.present => Len(v.weights.data) = Len(v.x)
  /\ v.labels.present => Len(v.labels.data) = Len(v.x)

\* The unique values of x, each once.
IsUniqueValuesOf(y, s) ==
  /\ Range(y) = Range(s)
  /\ \A i, j \in 1 .. Len(y) : y[i] = y[j] => i = j

\* C4 as claimed: under WEIGHTED_FREQUENCY with weights, the tuple holds the
\* unique values, the sum of the weights of each and a populated field of
\* the occurrences of each.
C4_CountsPopulated ==
  (vocab.ordering = "WEIGHTED_FREQUENCY" /\ vocab.weights.present /\ SameShape(vocab)) =>
    /\ pc = "built" => ~out.val[4].none
    /\ (pc = "evaluated" /\ 4 \in out.fetch) =>
         \A j \in 1 .. Len(out.val[1]) :
           out.val[4][j] = Cardinality(Occurrences(vocab.x, out.val[1][j]))

\* C4 as amended: under WEIGHTED_FREQUENCY with weights and without labels,
\* the tuple holds the unique values of the flattened x and, for each, the
\* sum of the weights of its occurrences; the field of the positive weights
\* and the field of the counts are None.
C4_WeightSumsOnly ==
  (vocab.ordering = "WEIGHTED_FREQUENCY" /\ vocab.weights.present
     /\ ~vocab.labels.present /\ SameShape(vocab)) =>
    /\ pc # "raised"
    /\ pc = "built" =>
         /\ ~out.val[1].none /\ ~out.val[2].none
         /\ out.val[3].none /\ out.val[4].none
    /\ pc = "evaluated" =>
         /\ out.status = "ok"
         /\ 1 \in out.fetch => IsUniqueValuesOf(out.val[1], vocab.x)
         /\ out.fetch = {1, 2} =>
              \A j \in 1 .. Len(out.val[1]) :
                out.val[2][j] =
                  SumOver(vocab.weights.data, Occurrences(vocab.x, out.val[1][j]))

\* x = [a, b, a] with weights [1, 2, 3]: a has 4 and b has 2.
C4_Witness ==
  /\ pc = "evaluated" /\ vocab.ordering = "WEIGHTED_FREQUENCY"
  /\ vocab.x = <<"a", "b", "a">> /\ vocab.weights = Given(<<1, 2, 3>>)
  /\ out.status = "ok" /\ out.fetch = {1, 2}
  /\ out.val[1] = <<"a", "b">> /\ out.val[2] = <<4, 2>>

\* C5: under WEIGHTED_FREQUENCY without weights the reduction does not
\* fail, and the weight sum of each unique value is the number of its
\* occurrences.
C5_DefaultWeights ==
  (vocab.ordering = "WEIGHTED_FREQUENCY" /\ ~vocab.weights.present) =>
    /\ pc # "raised"
    /\ pc = "evaluated" =>
         /\ out.status = "ok"
         /\ out.fetch = {1, 2} =>
              \A j \in 1 .. Len(out.val[1]) :
                out.val[2][j] = Cardinality(Occurrences(vocab.x, out.val[1][j]))

BadLabels(v) ==
  /\ v.ordering = "WEIGHTED_MUTUAL_INFORMATION" /\ v.labels.present
  /\ \E i \in 1 .. Len(v.labels.data) : v.labels.data[i] \notin {0, 1}

LabelDomainFailure(o) ==
  /\ o.status = "InvalidArgumentError"
  /\ o.failed \cap {"less_assert", "greater_assert"} # {}

\* C6 as claimed: under WEIGHTED_MUTUAL_INFORMATION with a label outside
\* {0, 1}, building the reduction does not fail and no field of the tuple
\* evaluates to a value: every evaluation fails on the label domain.
C6_NoFieldEvaluates ==
  BadLabels(vocab) =>
    /\ pc # "raised"
    /\ pc = "evaluated" => LabelDomainFailure(out)

\* C6 as amended: under WEIGHTED_MUTUAL_INFORMATION with a label outside
\* {0, 1} and tensors of one shape, building the reduction does not fail; an
\* evaluation that fetches the positive-label weight sums fails on the label
\* domain, and an evaluation of the unique values, the total weight sums or
\* the counts alone gives their values.
C6_PositiveWeightsGuarded ==
  (BadLabels(vocab) /\ SameShape(vocab)) =>
    /\ pc # "raised"
    /\ pc = "evaluated" =>
         IF 3 \in out.fetch THEN LabelDomainFailure(out)
         ELSE /\ out.status = "ok"
              /\ 1 \in out.fetch => IsUniqueValuesOf(out.val[1], vocab.x)

\* The positive-label weight sums of a batch with label 2 are fetched and
\* the evaluation fails on the assertion max(labels) <= 1.
C6_Witness ==
  /\ pc = "evaluated" /\ BadLabels(vocab) /\ SameShape(vocab)
  /\ vocab.labels.data = <<0, 2>>
  /\ out.fetch = {3}
  /\ out.status = "InvalidArgumentError" /\ out.failed = {"less_assert"}

=============================================================================
